---- MODULE Spec2Model ----
(***************************************************************************)
(* A model of src/index.js: a single-process trading script.  main() waits *)
(* for a price (waitForPriceAvailability), waits 30 s, buys through        *)
(* tradeTokenWithJupiter (bounded retries with exponential backoff), then  *)
(* polls the price in monitorAndSell and sells once the threshold is met.  *)
(* handleGlobalErrors restarts main() 10 s after a process-level error.    *)
(*                                                                         *)
(* Every `await` of the source is a position (pc) of a main() instance;    *)
(* the outcome of each external call is drawn nondeterministically.        *)
(***************************************************************************)
EXTENDS Integers, Sequences, FiniteSets, TLC

(***************************************************************************)
(* IEEE-754 binary64 arithmetic on non-negative numbers, as JavaScript's   *)
(* `*`, `/` and Math.floor compute it.  A number is [m, e]: the            *)
(* significand m is a natural below 2^53 written in base 2^10 (a sequence  *)
(* of limbs, least significant first, no leading zero limb) and the value  *)
(* is m * 2^e.  Zero is the empty significand.                             *)
(***************************************************************************)
MantissaBits == 53
LimbBits == 10
Base == 2 ^ LimbBits

RECURSIVE LimbsOf(_)
LimbsOf(n) == IF n = 0 THEN << >> ELSE << n % Base >> \o LimbsOf(n \div Base)

RECURSIVE IntOf(_)
IntOf(a) == IF a = << >> THEN 0 ELSE a[1] + Base * IntOf(Tail(a))

RECURSIVE Trim(_)
Trim(a) ==
    IF a = << >> THEN << >>
    ELSE IF a[Len(a)] = 0 THEN Trim(SubSeq(a, 1, Len(a) - 1))
    ELSE a

LimbAt(a, i) == IF i >= 1 /\ i <= Len(a) THEN a[i] ELSE 0

\* the limbs of sum_k c[k] * Base^(k-1) for coefficients c[k] < 2^30
RECURSIVE Carry(_, _, _)
Carry(c, k, carry) ==
    IF k > Len(c) THEN LimbsOf(carry)
    ELSE LET t == c[k] + carry
         IN  << t % Base >> \o Carry(c, k + 1, t \div Base)

BigAdd(a, b) ==
    LET n == IF Len(a) > Len(b) THEN Len(a) ELSE Len(b)
    IN  Trim(Carry([k \in 1..n |-> LimbAt(a, k) + LimbAt(b, k)], 1, 0))

RECURSIVE Convolve(_, _, _, _)
Convolve(a, b, k, i) ==
    IF i > Len(a) THEN 0
    ELSE a[i] * LimbAt(b, k + 1 - i) + Convolve(a, b, k, i + 1)

BigMul(a, b) ==
    IF a = << >> \/ b = << >> THEN << >>
    ELSE Trim(Carry([k \in 1..(Len(a) + Len(b) - 1) |-> Convolve(a, b, k, 1)], 1, 0))

\* floor(a / d) and a % d for a small divisor d (d < 2^20): long division
\* from the most significant limb
RECURSIVE DivSmallFrom(_, _, _, _)
DivSmallFrom(a, d, i, rem) ==
    IF i = 0 THEN [q |-> << >>, r |-> rem]
    ELSE LET t    == rem * Base + a[i]
             rest == DivSmallFrom(a, d, i - 1, t % d)
         IN  [q |-> rest.q \o << t \div d >>, r |-> rest.r]

DivSmall(a, d) ==
    LET res == DivSmallFrom(a, d, Len(a), 0)
    IN  [q |-> Trim(res.q), r |-> res.r]

\* the number of bits of a natural n < Base, and of a significand
SmallBitLen(n) == CHOOSE k \in 0..LimbBits : n < 2 ^ k /\ (k = 0 \/ n >= 2 ^ (k - 1))

BitLen(a) == IF a = << >> THEN 0 ELSE (Len(a) - 1) * LimbBits + SmallBitLen(a[Len(a)])

\* bit i (bit 0 is the least significant) of a
BitAt(a, i) == (LimbAt(a, i \div LimbBits + 1) \div 2 ^ (i % LimbBits)) % 2

\* floor(a / 2^d)
ShiftRight(a, d) ==
    LET q == d \div LimbBits
        r == d % LimbBits
        n == IF Len(a) > q THEN Len(a) - q ELSE 0
    IN  Trim([k \in 1..n |-> LimbAt(a, k + q) \div 2 ^ r
                             + (LimbAt(a, k + q + 1) % 2 ^ r) * 2 ^ (LimbBits - r)])

\* a * 2^d
ShiftLeft(a, d) ==
    IF a = << >> THEN << >>
    ELSE BigMul([k \in 1..(d \div LimbBits) |-> 0] \o << 2 ^ (d % LimbBits) >>, a)

\* round-to-nearest, ties-to-even, of (a + a fraction in (0,1) iff sticky) * 2^e
\* to MantissaBits significant bits
RoundBits(a, e, sticky) ==
    IF BitLen(a) <= MantissaBits THEN [m |-> a, e |-> e]
    ELSE LET d     == BitLen(a) - MantissaBits
             kept  == ShiftRight(a, d)
             guard == BitAt(a, d - 1)
             rest  == sticky \/ (\E i \in 0..(d - 2) : BitAt(a, i) = 1)
             up    == guard = 1 /\ (rest \/ BitAt(kept, 0) = 1)
             r     == IF up THEN BigAdd(kept, << 1 >>) ELSE kept
         IN  IF BitLen(r) > MantissaBits
             THEN [m |-> ShiftRight(r, 1), e |-> e + d + 1]
             ELSE [m |-> r, e |-> e + d]

\* the number an integer value denotes (exact below 2^53)
NumberOf(n) == [m |-> LimbsOf(n), e |-> 0]

\* JavaScript x * y
FloatMul(x, y) == RoundBits(BigMul(x.m, y.m), x.e + y.e, FALSE)

\* JavaScript p / d for integers p >= 0, d > 0; also the value of the decimal
\* literal that p/d writes, which is the correctly rounded quotient
FloatDivInt(p, d) ==
    IF p = 0 THEN [m |-> << >>, e |-> 0]
    ELSE LET s   == MantissaBits + 3 * LimbBits
             res == DivSmall(ShiftLeft(LimbsOf(p), s), d)
         IN  RoundBits(res.q, 0 - s, res.r # 0)

\* JavaScript Math.floor(x), as an integer (x < 2^31)
FloatFloor(x) ==
    IF x.e >= 0 THEN IntOf(ShiftLeft(x.m, x.e))
    ELSE IntOf(ShiftRight(x.m, 0 - x.e))

\* a < b for two naturals
BigLess(a, b) ==
    \/ Len(a) < Len(b)
    \/ /\ Len(a) = Len(b)
       /\ \E k \in 1..Len(a) : a[k] < b[k] /\ \A j \in (k + 1)..Len(a) : a[j] = b[j]

\* JavaScript x < y
FloatLess(x, y) ==
    LET e == IF x.e < y.e THEN x.e ELSE y.e
    IN  BigLess(ShiftLeft(x.m, x.e - e), ShiftLeft(y.m, y.e - e))

\* TRUE iff x is an integer
FloatIsInt(x) == x.e >= 0 \/ \A i \in 0..(0 - x.e - 1) : BitAt(x.m, i) = 0


(***************************************************************************)
(* Bounds of the model.                                                    *)
(***************************************************************************)
\* process-level error events (uncaughtException / unhandledRejection) the
\* environment delivers; each schedules one restart of main()
MaxGlobalErrors == 1
\* largest maxRetries argument tried on tradeTokenWithJupiter called alone
MaxRetriesArg == 4

\* main() instances that can exist: the first and one per restart
Instances == 1..(MaxGlobalErrors + 1)

(***************************************************************************)
(* Program constants.                                                      *)
(***************************************************************************)
LAMPORTS_PER_SOL == 1000000000
SOLANA_GAS_FEE_PRICE == FloatFloor(FloatMul(FloatDivInt(5, 1000000), NumberOf(LAMPORTS_PER_SOL)))
JITO_TIP_AMOUNT == FloatFloor(FloatMul(FloatDivInt(1, 100000), NumberOf(LAMPORTS_PER_SOL)))
requiredEnvVars == {"PRIVATE_KEY", "API_KEY"}
DefaultMaxRetries == 3
percentageToBuy == 6
SellPercentage == 100
WaitPollMs == 1500
SettleMs == 30000
MonitorPollMs == 2000
RestartMs == 10000

(***************************************************************************)
(* JavaScript values.                                                      *)
(***************************************************************************)
Null == [t |-> "null", v |-> 0]
Undefined == [t |-> "undefined", v |-> 0]
Num(n) == [t |-> "number", v |-> n]

\* ToBoolean(x) for the values above
Truthy(x) == x.t = "number" /\ x.v # 0

\* prices the price API can report, and the `price` field of its answer,
\* which may be absent
Prices == {0, 10, 11, 12}
PriceFields == {Undefined} \cup {Num(p) : p \in Prices}

\* the value getTokenInfo returns: null or {price, source, isFreezable}
NullInfo == [t |-> "null", price |-> Undefined, isFreezable |-> FALSE]
Info(p, f) == [t |-> "object", price |-> p, isFreezable |-> f]

\* answers of the price request and of the mint-account lookup
PriceResponses ==
    {[kind |-> "error", price |-> Undefined], [kind |-> "nodata", price |-> Undefined]}
    \cup {[kind |-> "data", price |-> p] : p \in PriceFields}
MintResponses == {"error", "malformed", "freezeAuthority", "noFreezeAuthority"}

\* getTokenInfo: the price request, then the mint-account lookup; every
\* exception is caught and logged, and null returned
getTokenInfo(priceResp, mintResp) ==
    IF priceResp.kind # "data" THEN NullInfo
    ELSE IF mintResp \in {"error", "malformed"} THEN NullInfo
    ELSE Info(priceResp.price, mintResp = "freezeAuthority")

TokenInfos == {getTokenInfo(p, m) : p \in PriceResponses, m \in MintResponses}

\* what an external call that fails throws: an Error, or a value without
\* a `message` property (a promise may reject with any value)
Thrown == {"Error", "nullish"}

\* lamport balances getBalance can report, and token balances
\* getTokenAccountBalance can report (raw amount, decimals)
Balances == {0, 100000, 250000, 1000000000}
TokenBalances == {[raw |-> 29, decimals |-> 2], [raw |-> 1000000, decimals |-> 6]}
Percentages == {percentageToBuy, 29, SellPercentage}

\* the completion of a tradeTokenWithJupiter call
NoResult == [t |-> "none", success |-> FALSE, initialPrice |-> Undefined]
False == [t |-> "false", success |-> FALSE, initialPrice |-> Undefined]
ReturnedUndefined == [t |-> "undefined", success |-> FALSE, initialPrice |-> Undefined]
ThrownError == [t |-> "throw", success |-> FALSE, initialPrice |-> Undefined]
Success(p) == [t |-> "object", success |-> TRUE, initialPrice |-> p]


(***************************************************************************)
(* The conditions and computations of the code, one operator each.         *)
(***************************************************************************)
\* a faulty variant of the list below: API_KEY is not among the required
PrivateKeyMissing(env) == {v \in {"PRIVATE_KEY"} : ~env[v]}

\* checkEnvVariables: the required variables that are not set
MissingVars(env) == {v \in requiredEnvVars : ~env[v]}

\* a faulty variant of the test below: `tokenInfo` alone, the price not tested
InfoAvailable(tokenInfo) == tokenInfo.t # "null"

\* waitForPriceAvailability: `tokenInfo && tokenInfo.price`
PriceAvailable(tokenInfo) == tokenInfo.t # "null" /\ Truthy(tokenInfo.price)

\* tradeTokenWithJupiter: `while (retries < maxRetries)`
LoopTest(retries, maxRetries) == retries < maxRetries

\* Math.floor(balance * (percentage / 100)) - SOLANA_GAS_FEE_PRICE - JITO_TIP_AMOUNT
BuyAmount(balance, percentage) ==
    FloatFloor(FloatMul(NumberOf(balance), FloatDivInt(percentage, 100)))
        - SOLANA_GAS_FEE_PRICE - JITO_TIP_AMOUNT

\* a faulty variant of the test below: the share of the balance is tested
\* before the fees are taken off
ShareRejected(amount) == amount + SOLANA_GAS_FEE_PRICE + JITO_TIP_AMOUNT < 0

\* `if (amount < 0)`
AmountRejected(amount) == amount < 0

\* tokenBalance.value.uiAmount: the raw amount divided by 10^decimals
UiAmount(tokenBalance) == FloatDivInt(tokenBalance.raw, 10 ^ tokenBalance.decimals)

\* Math.floor(uiAmount * (percentage / 100) * Math.pow(10, decimals))
SellAmount(tokenBalance, percentage) ==
    FloatFloor(FloatMul(FloatMul(UiAmount(tokenBalance), FloatDivInt(percentage, 100)),
                        NumberOf(10 ^ tokenBalance.decimals)))

\* a faulty variant of the test below: `if (!bundleUuid)`
BundleMissing(bundleUuid) == bundleUuid = "empty"

\* `if (bundleUuid)`: sendBundle answered "uuid" (a non-empty identifier) or
\* "empty" (an empty or missing one)
BundleAccepted(bundleUuid) == bundleUuid = "uuid"

\* `initialPrice = tokenInfo ? tokenInfo.price : null`
CapturedPrice(tokenInfo) == IF tokenInfo.t # "null" THEN tokenInfo.price ELSE Null

\* `if (retries >= maxRetries)` in the catch block
RetriesExhausted(retries, maxRetries) == retries >= maxRetries

\* a faulty variant of the delay below: linear, `2 * retries * 1000`
BackoffLinear(retries) == 2 * retries * 1000

\* `Math.pow(2, retries) * 1000`
BackoffMs(retries) == 2 ^ retries * 1000

\* a faulty variant of the test below: `if (result !== undefined)`
ResultDefined(result) == result.t # "undefined"

\* main: `if (result && result.success)`
ShouldMonitor(result) == result.t = "object" /\ result.success

\* a faulty variant of the test below: `if (initialPrice === undefined)`
MonitorRefusesUndefined(initialPrice) == initialPrice = Undefined

\* monitorAndSell: `if (initialPrice === null)`
MonitorRefuses(initialPrice) == initialPrice = Null

\* a faulty variant of the threshold below: the 2% of the source's comments,
\* `initialPrice * 1.02`
ThresholdTwoPercent(initialPrice) ==
    IF initialPrice.t = "number"
    THEN [t |-> "number", v |-> FloatMul(NumberOf(initialPrice.v), FloatDivInt(102, 100))]
    ELSE IF initialPrice.t = "null" THEN [t |-> "number", v |-> NumberOf(0)]
    ELSE [t |-> "undefined", v |-> NumberOf(0)]

\* monitorAndSell: `const threshold = initialPrice * 1.2`; null * 1.2 is 0
\* and undefined * 1.2 is NaN, written Undefined here
Threshold(initialPrice) ==
    IF initialPrice.t = "number"
    THEN [t |-> "number", v |-> FloatMul(NumberOf(initialPrice.v), FloatDivInt(12, 10))]
    ELSE IF initialPrice.t = "null" THEN [t |-> "number", v |-> NumberOf(0)]
    ELSE [t |-> "undefined", v |-> NumberOf(0)]

\* monitorAndSell: `currentPriceInfo && currentPriceInfo.price >= threshold`;
\* a comparison with undefined or NaN is false
TargetMet(currentPriceInfo, threshold) ==
    /\ currentPriceInfo.t # "null"
    /\ currentPriceInfo.price.t = "number"
    /\ threshold.t = "number"
    /\ ~FloatLess(NumberOf(currentPriceInfo.price.v), threshold.v)

(***************************************************************************)
(* State.                                                                  *)
(***************************************************************************)
VARIABLES
    processEnv,     \* process.env: which required variables are set
    loaded,         \* the module's top-level code has run
    exitCode,       \* {} while the process runs, {code} once it has exited
    started,        \* main() calls made so far
    restartTimers,  \* pending setTimeout callbacks of handleGlobalErrors
    globalErrors,   \* process-level error events delivered so far
    logged,         \* the lists of missing variables checkEnvVariables has logged
    run             \* per main() call: its position and local variables

vars == <<processEnv, loaded, exitCode, started, restartTimers, globalErrors, logged, run>>

NoBalance == [raw |-> 0, decimals |-> 0]

\* a main() call that has not been made
IdleRun ==
    [pc |-> "idle",            \* the await the call is suspended at
     timer |-> 0,              \* the delay (ms) of the setTimeout awaited
     tokenInfo |-> NullInfo,   \* the last result of getTokenInfo
     waitResult |-> Undefined, \* what waitForPriceAvailability returned
     caller |-> "none",        \* who called tradeTokenWithJupiter
     percentage |-> 0, isBuy |-> FALSE, maxRetries |-> 0,   \* its arguments
     retries |-> 0, initialPrice |-> Null,                  \* its locals
     balance |-> NoBalance, amount |-> 0,
     bundleUuid |-> "none",    \* what sendBundle answered in this attempt
     attempts |-> 0,           \* loop bodies entered in this call
     submissions |-> 0,        \* sendBundle calls made in this call
     tradeResult |-> NoResult, \* how the last call completed
     buyAccepted |-> FALSE,    \* sendBundle has answered a buy with an identifier
     monitorCalled |-> FALSE,  \* monitorAndSell has been called
     monitorPrice |-> Null,    \* monitorAndSell's initialPrice argument
     polled |-> FALSE,         \* monitorAndSell has fetched the price
     sells |-> 0]              \* sell trades monitorAndSell invoked

Alive == loaded /\ exitCode = {}

(***************************************************************************)
(* tradeTokenWithJupiter                                                   *)
(***************************************************************************)
\* the call completes: with a value, or by throwing
Return(r, v) == [r EXCEPT !.pc = "t_done", !.tradeResult = v, !.timer = 0]

\* the head of the while loop: enter the body (the balance read is issued)
\* or fall out of the loop and off the end of the function
LoopHead(r) ==
    IF LoopTest(r.retries, r.maxRetries)
    THEN [r EXCEPT !.pc = "t_size", !.timer = 0, !.bundleUuid = "none",
                   !.attempts = @ + 1]
    ELSE Return(r, ReturnedUndefined)

\* the call: `let retries = 0; let initialPrice = null;` then the loop
CallTrade(r, caller, percentage, isBuy, maxRetries) ==
    LoopHead([r EXCEPT !.caller = caller, !.percentage = percentage,
                       !.isBuy = isBuy, !.maxRetries = maxRetries,
                       !.retries = 0, !.initialPrice = Null,
                       !.balance = NoBalance, !.amount = 0,
                       !.bundleUuid = "none", !.attempts = 0, !.submissions = 0,
                       !.tradeResult = NoResult])

\* a faulty variant of the catch block below: `retries++` is missing
CatchUncounted(r, thrown) ==
    LET c == [r EXCEPT !.balance = NoBalance, !.amount = 0]
    IN  IF thrown = "nullish" THEN Return(c, ThrownError)
        ELSE IF RetriesExhausted(r.retries, r.maxRetries) THEN Return(c, False)
        ELSE [c EXCEPT !.pc = "t_backoff", !.timer = BackoffMs(r.retries)]

\* the catch block: count the failure, log `error.message` (a TypeError
\* when the thrown value has no properties, which leaves the function),
\* give up when the retries are exhausted, else wait 2^retries seconds
Catch(r, thrown) ==
    LET n == r.retries + 1
        c == [r EXCEPT !.retries = n, !.balance = NoBalance, !.amount = 0]
    IN  IF thrown = "nullish" THEN Return(c, ThrownError)
        ELSE IF RetriesExhausted(n, r.maxRetries) THEN Return(c, False)
        ELSE [c EXCEPT !.pc = "t_backoff", !.timer = BackoffMs(n)]

Step(i, r) ==
    /\ run' = [run EXCEPT ![i] = r]
    /\ UNCHANGED <<processEnv, loaded, exitCode, started, restartTimers, globalErrors, logged>>

\* step 1, buy: getBalance answers or fails; the amount is computed and the
\* quote requested, unless the amount is negative
SizeBuy(i) ==
    /\ Alive /\ run[i].pc = "t_size" /\ run[i].isBuy
    /\ \/ \E balance \in Balances :
            LET amount == BuyAmount(balance, run[i].percentage)
            IN  IF AmountRejected(amount)
                THEN Step(i, Return([run[i] EXCEPT !.amount = amount,
                                                   !.balance = [raw |-> balance, decimals |-> 0]],
                                    False))
                ELSE Step(i, [run[i] EXCEPT !.pc = "t_quote", !.amount = amount,
                                            !.balance = [raw |-> balance, decimals |-> 0]])
       \/ \E thrown \in Thrown : Step(i, Catch(run[i], thrown))

\* step 1, sell: the token account is derived and its balance read
SizeSell(i) ==
    /\ Alive /\ run[i].pc = "t_size" /\ ~run[i].isBuy
    /\ \/ \E tokenBalance \in TokenBalances :
            Step(i, [run[i] EXCEPT !.pc = "t_quote", !.balance = tokenBalance,
                                   !.amount = SellAmount(tokenBalance, run[i].percentage)])
       \/ \E thrown \in Thrown : Step(i, Catch(run[i], thrown))

\* step 2: the quote request answers (ok, parsed) and the swap transaction
\* is requested, or fails (rejected, not ok, unparsable)
Quote(i) ==
    /\ Alive /\ run[i].pc = "t_quote"
    /\ \/ Step(i, [run[i] EXCEPT !.pc = "t_swap", !.balance = NoBalance, !.amount = 0])
       \/ \E thrown \in Thrown : Step(i, Catch(run[i], thrown))

\* step 3: the swap request answers; the transaction is deserialized, signed
\* and put in a bundle, and the tip accounts are requested; or any of it fails
BuildTransaction(i) ==
    /\ Alive /\ run[i].pc = "t_swap"
    /\ \/ Step(i, [run[i] EXCEPT !.pc = "t_tip"])
       \/ \E thrown \in Thrown : Step(i, Catch(run[i], thrown))

\* step 4a: getTipAccounts answers and the blockhash is requested, or fails
TipAccounts(i) ==
    /\ Alive /\ run[i].pc = "t_tip"
    /\ \/ Step(i, [run[i] EXCEPT !.pc = "t_blockhash"])
       \/ \E thrown \in Thrown : Step(i, Catch(run[i], thrown))

\* step 4b: getLatestBlockhash answers, the tip transaction is added and the
\* bundle is sent; or it fails
Blockhash(i) ==
    /\ Alive /\ run[i].pc = "t_blockhash"
    /\ \/ Step(i, [run[i] EXCEPT !.pc = "t_send", !.submissions = @ + 1])
       \/ \E thrown \in Thrown : Step(i, Catch(run[i], thrown))

\* step 5: sendBundle answers with an identifier (a buy then re-queries the
\* price, a sell returns) or without one (an Error is thrown), or fails
Submit(i) ==
    /\ Alive /\ run[i].pc = "t_send"
    /\ \/ \E bundleUuid \in {"uuid", "empty"} :
            IF BundleAccepted(bundleUuid)
            THEN IF run[i].isBuy
                 THEN Step(i, [run[i] EXCEPT !.pc = "t_capture", !.bundleUuid = bundleUuid,
                                             !.buyAccepted = TRUE])
                 ELSE Step(i, Return([run[i] EXCEPT !.bundleUuid = bundleUuid],
                                     Success(run[i].initialPrice)))
            ELSE Step(i, Catch([run[i] EXCEPT !.bundleUuid = bundleUuid], "Error"))
       \/ \E thrown \in Thrown : Step(i, Catch(run[i], thrown))

\* step 6: getTokenInfo returns; its price, or null, is the initial price
\* the call returns
CapturePrice(i) ==
    /\ Alive /\ run[i].pc = "t_capture"
    /\ \E p \in PriceResponses, m \in MintResponses :
          LET price == CapturedPrice(getTokenInfo(p, m))
          IN  Step(i, Return([run[i] EXCEPT !.initialPrice = price], Success(price)))

\* a faulty variant of the action below: the next attempt keeps the quote
\* of the failed one and resumes at the swap request
BackoffReuseQuote(i) ==
    /\ Alive /\ run[i].pc = "t_backoff"
    /\ Step(i, [LoopHead(run[i]) EXCEPT !.pc = "t_swap"])

\* the backoff delay has passed
Backoff(i) ==
    /\ Alive /\ run[i].pc = "t_backoff"
    /\ Step(i, LoopHead(run[i]))


(***************************************************************************)
(* main, waitForPriceAvailability and monitorAndSell                       *)
(***************************************************************************)
\* main() ends (it returns, or its catch block has logged the error): the
\* frames are gone; how the last trade completed stays on record
EndMain(r) ==
    [r EXCEPT !.pc = "done", !.timer = 0, !.caller = "none",
              !.retries = 0, !.initialPrice = Null,
              !.balance = NoBalance, !.amount = 0,
              !.bundleUuid = "none", !.attempts = 0, !.submissions = 0]

\* main() is called: checkEnvVariables, then waitForPriceAvailability
\* issues its first getTokenInfo
StartMain(i) ==
    /\ started' = i
    /\ IF MissingVars(processEnv) # {}
       THEN /\ logged' = logged \cup {MissingVars(processEnv)}
            /\ exitCode' = {1} /\ run' = run
       ELSE /\ run' = [run EXCEPT ![i] = [IdleRun EXCEPT !.pc = "wfp_fetch"]]
            /\ UNCHANGED <<exitCode, logged>>

\* getTokenInfo, called by waitForPriceAvailability, returns
WaitFetch(i) ==
    /\ Alive /\ run[i].pc = "wfp_fetch"
    /\ \E p \in PriceResponses, m \in MintResponses :
          Step(i, [run[i] EXCEPT !.pc = "wfp_resume", !.tokenInfo = getTokenInfo(p, m)])

\* waitForPriceAvailability resumes: it returns the price (main then waits
\* 30 s), or waits 1.5 s before asking again
WaitResume(i) ==
    /\ Alive /\ run[i].pc = "wfp_resume"
    /\ LET tokenInfo == run[i].tokenInfo
       IN  IF PriceAvailable(tokenInfo)
           THEN Step(i, [run[i] EXCEPT !.pc = "settle", !.timer = SettleMs,
                                       !.tokenInfo = NullInfo,
                                       !.waitResult = tokenInfo.price])
           ELSE Step(i, [run[i] EXCEPT !.pc = "wfp_sleep", !.timer = WaitPollMs,
                                       !.tokenInfo = NullInfo])

WaitSleep(i) ==
    /\ Alive /\ run[i].pc = "wfp_sleep"
    /\ Step(i, [run[i] EXCEPT !.pc = "wfp_fetch", !.timer = 0])

\* the 30 s have passed: main calls tradeTokenWithJupiter(tokenAddress, 6, true)
Settle(i) ==
    /\ Alive /\ run[i].pc = "settle"
    /\ Step(i, CallTrade([run[i] EXCEPT !.timer = 0, !.waitResult = Undefined],
                         "main", percentageToBuy, TRUE, DefaultMaxRetries))

\* the buy has completed: main calls monitorAndSell if it succeeded, and
\* monitorAndSell returns at once on a null initial price or issues its
\* first getTokenInfo; an exception is logged by main's catch block
AfterBuy(i) ==
    /\ Alive /\ run[i].pc = "t_done" /\ run[i].caller = "main"
    /\ LET result == run[i].tradeResult
       IN  IF result.t # "throw" /\ ShouldMonitor(result)
           THEN IF MonitorRefuses(result.initialPrice)
                THEN Step(i, EndMain([run[i] EXCEPT !.monitorCalled = TRUE,
                                                    !.monitorPrice = result.initialPrice]))
                ELSE Step(i, [run[i] EXCEPT !.pc = "mon_fetch",
                                            !.monitorCalled = TRUE,
                                            !.monitorPrice = result.initialPrice,
                                            !.caller = "none",
                                            !.retries = 0, !.initialPrice = Null,
                                            !.bundleUuid = "none",
                                            !.attempts = 0, !.submissions = 0])
           ELSE Step(i, EndMain(run[i]))

\* getTokenInfo, called by monitorAndSell, returns
MonitorFetch(i) ==
    /\ Alive /\ run[i].pc = "mon_fetch"
    /\ \E p \in PriceResponses, m \in MintResponses :
          Step(i, [run[i] EXCEPT !.pc = "mon_resume", !.polled = TRUE,
                                 !.tokenInfo = getTokenInfo(p, m)])

\* monitorAndSell resumes: it sells everything if the price has reached the
\* threshold, else waits 2 s before asking again
MonitorResume(i) ==
    /\ Alive /\ run[i].pc = "mon_resume"
    /\ LET r == [run[i] EXCEPT !.tokenInfo = NullInfo]
       IN  IF TargetMet(run[i].tokenInfo, Threshold(run[i].monitorPrice))
           THEN Step(i, CallTrade([r EXCEPT !.sells = @ + 1], "monitorAndSell",
                                  SellPercentage, FALSE, DefaultMaxRetries))
           ELSE Step(i, [r EXCEPT !.pc = "mon_sleep", !.timer = MonitorPollMs])

MonitorSleep(i) ==
    /\ Alive /\ run[i].pc = "mon_sleep"
    /\ Step(i, [run[i] EXCEPT !.pc = "mon_fetch", !.timer = 0])

\* a faulty variant of the action below: the `break` is missing, and the
\* loop goes on to its 2 s wait
AfterSellContinue(i) ==
    /\ Alive /\ run[i].pc = "t_done" /\ run[i].caller = "monitorAndSell"
    /\ IF run[i].tradeResult.t = "throw"
       THEN Step(i, EndMain(run[i]))
       ELSE Step(i, [run[i] EXCEPT !.pc = "mon_sleep", !.timer = MonitorPollMs,
                                   !.caller = "none", !.retries = 0,
                                   !.initialPrice = Null, !.bundleUuid = "none",
                                   !.attempts = 0, !.submissions = 0])

\* the sell has completed: `break`, monitorAndSell and main return (an
\* exception passes through monitorAndSell into main's catch block)
AfterSell(i) ==
    /\ Alive /\ run[i].pc = "t_done" /\ run[i].caller = "monitorAndSell"
    /\ Step(i, EndMain(run[i]))

(***************************************************************************)
(* The module's top level and handleGlobalErrors                           *)
(***************************************************************************)
\* the top-level code: without PRIVATE_KEY line 17 throws (no handler is
\* registered yet, nothing is logged by the program) and the process ends
\* with code 1; else main() is called and the handlers are registered
ModuleLoad ==
    /\ ~loaded
    /\ loaded' = TRUE
    /\ IF ~processEnv["PRIVATE_KEY"]
       THEN exitCode' = {1} /\ UNCHANGED <<started, run, logged>>
       ELSE StartMain(1)
    /\ UNCHANGED <<processEnv, restartTimers, globalErrors>>

\* something is pending: Node keeps running, and errors can surface
EventLoopBusy ==
    restartTimers > 0 \/ \E i \in Instances : run[i].pc \notin {"idle", "done"}

\* an uncaughtException or unhandledRejection event: handleGlobalErrors logs
\* error.message and error.stack and sets the 10 s timer.  A rejection with
\* a value without properties makes the handler throw, which surfaces as an
\* uncaughtException and runs the handler again; an uncaught exception with
\* such a value makes the uncaughtException handler itself throw, and Node
\* exits with code 7.
GlobalErrorKinds == {"uncaughtException", "unhandledRejection"}

handleGlobalErrors(kind, error) ==
    IF kind = "uncaughtException" /\ error = "nullish"
    THEN exitCode' = {7} /\ UNCHANGED restartTimers
    ELSE restartTimers' = restartTimers + 1 /\ UNCHANGED exitCode

GlobalError ==
    /\ Alive /\ EventLoopBusy
    /\ globalErrors < MaxGlobalErrors
    /\ globalErrors' = globalErrors + 1
    /\ \E kind \in GlobalErrorKinds, error \in Thrown : handleGlobalErrors(kind, error)
    /\ UNCHANGED <<processEnv, loaded, started, logged, run>>

\* the 10 s have passed: `main().catch(handleGlobalErrors)`; main() never
\* rejects, its body being one try/catch whose handler does not throw
Restart ==
    /\ Alive /\ restartTimers > 0
    /\ started + 1 \in Instances
    /\ restartTimers' = restartTimers - 1
    /\ StartMain(started + 1)
    /\ UNCHANGED <<processEnv, loaded, globalErrors>>

(***************************************************************************)
(* The program.                                                            *)
(***************************************************************************)
Init ==
    /\ processEnv \in [requiredEnvVars -> BOOLEAN]
    /\ loaded = FALSE
    /\ exitCode = {}
    /\ started = 0
    /\ restartTimers = 0
    /\ globalErrors = 0
    /\ logged = {}
    /\ run = [i \in Instances |-> IdleRun]

Trade(i) ==
    \/ SizeBuy(i) \/ SizeSell(i) \/ Quote(i) \/ BuildTransaction(i)
    \/ TipAccounts(i) \/ Blockhash(i) \/ Submit(i) \/ CapturePrice(i)
    \/ Backoff(i)

Sequence(i) ==
    \/ WaitFetch(i) \/ WaitResume(i) \/ WaitSleep(i) \/ Settle(i)
    \/ AfterBuy(i)
    \/ MonitorFetch(i) \/ MonitorResume(i) \/ MonitorSleep(i)
    \/ AfterSell(i)

Next ==
    \/ ModuleLoad
    \/ GlobalError
    \/ Restart
    \/ \E i \in Instances : Sequence(i) \/ Trade(i)

Spec == Init /\ [][Next]_vars

(***************************************************************************)
(* One run of the top-level sequence: main() has been called with the      *)
(* configuration present, and no process-level error surfaces.             *)
(***************************************************************************)
InitRun ==
    /\ processEnv = [v \in requiredEnvVars |-> TRUE]
    /\ loaded = TRUE
    /\ exitCode = {}
    /\ started = 1
    /\ restartTimers = 0
    /\ globalErrors = 0
    /\ logged = {}
    /\ run = [i \in Instances |->
                 IF i = 1 THEN [IdleRun EXCEPT !.pc = "wfp_fetch"] ELSE IdleRun]

NextRun == \E i \in Instances : Sequence(i) \/ Trade(i)

SpecRun == InitRun /\ [][NextRun]_vars

(***************************************************************************)
(* The start of the process with any configuration, followed by the one    *)
(* run of main() the module makes; no process-level error surfaces.        *)
(***************************************************************************)
NextBoot == ModuleLoad \/ \E i \in Instances : Sequence(i) \/ Trade(i)

SpecBoot == Init /\ [][NextBoot]_vars

(***************************************************************************)
(* tradeTokenWithJupiter called on its own, with any arguments.            *)
(***************************************************************************)
TradeCall(i) ==
    /\ Alive /\ run[i].pc = "call"
    /\ Step(i, CallTrade(run[i], "caller", run[i].percentage, run[i].isBuy,
                         run[i].maxRetries))

InitTrade ==
    /\ processEnv = [v \in requiredEnvVars |-> TRUE]
    /\ loaded = TRUE
    /\ exitCode = {}
    /\ started = 1
    /\ restartTimers = 0
    /\ globalErrors = 0
    /\ logged = {}
    /\ \E percentage \in Percentages, isBuy \in BOOLEAN, maxRetries \in 0..MaxRetriesArg :
          run = [i \in Instances |->
                    IF i = 1
                    THEN [IdleRun EXCEPT !.pc = "call", !.percentage = percentage,
                                         !.isBuy = isBuy, !.maxRetries = maxRetries]
                    ELSE IdleRun]

NextTrade == \E i \in Instances : TradeCall(i) \/ Trade(i)

SpecTrade == InitTrade /\ [][NextTrade]_vars

(***************************************************************************)
(* The properties.                                                         *)
(***************************************************************************)
TradePcs == {"t_size", "t_quote", "t_swap", "t_tip", "t_blockhash", "t_send",
             "t_capture", "t_backoff", "t_done"}

\* C1: a call of tradeTokenWithJupiter with maxRetries >= 1 makes at most
\* maxRetries attempts and at most maxRetries bundle submissions, and once
\* maxRetries attempts have failed it has returned false.  (SpecTrade; the
\* last conjunct fails when the value thrown in the last attempt is
\* undefined or null: the catch block's `error.message` throws.)
C1_BoundedAttemptsReturnFalse ==
    \A i \in Instances :
        run[i].pc \in TradePcs /\ run[i].maxRetries >= 1 =>
            /\ run[i].attempts <= run[i].maxRetries
            /\ run[i].submissions <= run[i].maxRetries
            /\ (run[i].retries >= run[i].maxRetries =>
                    run[i].pc = "t_done" /\ run[i].tradeResult = False)

\* the part of C1 that holds: at most maxRetries attempts and submissions
\* (none at all for maxRetries = 0), and false only after maxRetries failures
\* or a negative amount.  (SpecTrade)
AttemptsBounded ==
    \A i \in Instances :
        run[i].pc \in TradePcs =>
            /\ run[i].attempts <= run[i].maxRetries
            /\ run[i].submissions <= run[i].attempts
            /\ run[i].retries <= run[i].maxRetries
            /\ (run[i].tradeResult = False =>
                    run[i].retries = run[i].maxRetries \/ run[i].amount < 0)

\* C2: once sendBundle has answered attempt k with a non-empty identifier,
\* the call does nothing but (for a buy) re-query the price and return
\* {success: true, initialPrice}: it is at attempt k still, with no backoff
\* pending, and no further quote, build or submission follows.  (SpecTrade)
C2_AcceptedReturnsSuccess ==
    \A i \in Instances :
        run[i].bundleUuid = "uuid" =>
            /\ run[i].pc \in {"t_capture", "t_done"}
            /\ run[i].attempts = run[i].retries + 1
            /\ run[i].submissions <= run[i].attempts
            /\ run[i].timer = 0
            /\ (run[i].pc = "t_capture" => run[i].isBuy)
            /\ (run[i].pc = "t_done" =>
                    run[i].tradeResult = Success(run[i].initialPrice))

\* C2's case: a call has returned success at its third attempt
C2_Witness ==
    \E i \in Instances :
        /\ run[i].pc = "t_done" /\ run[i].bundleUuid = "uuid"
        /\ run[i].attempts = 3 /\ run[i].tradeResult.success

\* the claim's test of one poll: the fetch is non-null and its price is at
\* least initialPrice * 1.2 (in tenths: 10 * price >= 12 * initialPrice)
PollMeetsTarget(info, initialPrice) ==
    /\ info.t = "object"
    /\ info.price.t = "number"
    /\ initialPrice.t = "number"
    /\ 10 * info.price.v >= 12 * initialPrice.v

C4_SellOnceThenStop ==
    \A i \in Instances :
        /\ run[i].sells <= 1
        /\ (run[i].sells = 1 =>
               \/ /\ run[i].pc \in TradePcs /\ run[i].caller = "monitorAndSell"
                  /\ run[i].percentage = 100 /\ ~run[i].isBuy
               \/ run[i].pc = "done")

\* C4's case: the one sell has failed and monitoring is over
C4_Witness ==
    \E i \in Instances :
        run[i].pc = "done" /\ run[i].sells = 1 /\ run[i].tradeResult = False

\* C5, as stated: waitForPriceAvailability returns the price at the first
\* getTokenInfo result that is non-null with a defined price, and waits
\* 1.5 s and polls again after any other result.  (SpecRun; fails for a
\* price of 0, which is defined but falsy)
C5_ReturnsAtDefinedPrice ==
    [][\A i \in Instances :
          run[i].pc = "wfp_resume" /\ run'[i] # run[i] =>
              IF run[i].tokenInfo.t = "object" /\ run[i].tokenInfo.price # Undefined
              THEN /\ run'[i].pc = "settle"
                   /\ run'[i].waitResult = run[i].tokenInfo.price
              ELSE run'[i].pc = "wfp_sleep" /\ run'[i].timer = 1500]_vars

\* C5, amended: waitForPriceAvailability returns the price at the first
\* getTokenInfo result that is non-null with a truthy price (defined and
\* not 0), and waits 1.5 s and polls again after any other result.  (SpecRun)
C5_ReturnsAtTruthyPrice ==
    [][\A i \in Instances :
          run[i].pc = "wfp_resume" /\ run'[i] # run[i] =>
              IF /\ run[i].tokenInfo.t = "object"
                 /\ run[i].tokenInfo.price # Undefined
                 /\ run[i].tokenInfo.price # Num(0)
              THEN /\ run'[i].pc = "settle"
                   /\ run'[i].waitResult = run[i].tokenInfo.price
              ELSE run'[i].pc = "wfp_sleep" /\ run'[i].timer = 1500]_vars

\* C5's case: waitForPriceAvailability has returned a price
C5_Witness ==
    \E i \in Instances : run[i].pc = "settle" /\ run[i].waitResult.t = "number"

\* C6: a buy whose computed amount is negative returns false at once, at
\* whichever attempt: the amount never reaches the quote request, nothing
\* is submitted in that attempt, no retry is consumed and no backoff is
\* waited.  (SpecTrade)
C6_NegativeAmountReturnsFalse ==
    \A i \in Instances :
        run[i].isBuy /\ run[i].amount < 0 =>
            /\ run[i].pc = "t_done"
            /\ run[i].tradeResult = False
            /\ run[i].bundleUuid = "none"
            /\ run[i].attempts = run[i].retries + 1
            /\ run[i].timer = 0

\* C6's case: the amount was negative at a second or later attempt
C6_Witness ==
    \E i \in Instances :
        /\ run[i].isBuy /\ run[i].amount < 0 /\ run[i].pc = "t_done"
        /\ run[i].retries > 0

\* floor(balance * p / 100) in exact arithmetic
ExactShare(balance, p) == (balance \div 100) * p + ((balance % 100) * p) \div 100

\* C7: the amount a buy passes to the quote request is
\* floor(balance * p / 100) - 5000 - 10000 lamports, for every percentage p
\* with 0 < p <= 100.  (SpecTrade; fails for p = 29 and a balance of 100000:
\* the code computes floor(100000 * 0.29) = 28999 in floating point)
C7_BuyAmountExact ==
    \A i \in Instances :
        run[i].isBuy /\ run[i].pc = "t_quote" =>
            run[i].amount = ExactShare(run[i].balance.raw, run[i].percentage) - 5000 - 10000

\* C8: monitorAndSell called with a null initial price returns at once: no
\* price is fetched and no sell is invoked.  (SpecRun)
C8_NullInitialPriceReturns ==
    \A i \in Instances :
        run[i].monitorCalled /\ run[i].monitorPrice = Null =>
            /\ run[i].pc = "done"
            /\ ~run[i].polled
            /\ run[i].sells = 0

\* C8's case: monitorAndSell has been called with a null initial price
C8_Witness ==
    \E i \in Instances :
        /\ run[i].monitorCalled /\ run[i].monitorPrice = Null
        /\ run[i].tradeResult = Success(Null)

\* C9: when an error has escaped a step of the top-level sequence (here the
\* buy or the sell has thrown) and the run has ended, the global handler has
\* scheduled a restart: a restart timer is pending or a later run has
\* started.  (Spec; fails: main's own catch block logs the error and main
\* returns normally, so the handler is never called)
C9_EscapedErrorRestarts ==
    \A i \in Instances :
        run[i].pc = "done" /\ run[i].tradeResult = ThrownError =>
            restartTimers > 0 \/ started > i

\* C10: when the buy has returned false and the run has ended, the sequence
\* runs again: a restart timer is pending or a later run has started.
\* (Spec; fails: main simply returns)
C10_FailedBuyRestarts ==
    \A i \in Instances :
        run[i].pc = "done" /\ run[i].isBuy /\ run[i].tradeResult = False =>
            restartTimers > 0 \/ started > i

\* the runs of the top-level sequence that are polling, trading or monitoring
ActiveRuns == {i \in Instances : run[i].pc \notin {"idle", "done"}}

\* C11: at most one run of the top-level sequence is active at any moment
\* (and so at most one network operation is in flight): a restart never
\* starts while an earlier run is still polling, trading or monitoring.
\* (Spec; fails: an uncaughtException or unhandledRejection event sets the
\* 10 s timer whatever the running sequence is doing, and the timer calls
\* main() again beside it)
C11_OneActiveRun == Cardinality(ActiveRuns) <= 1

\* C12: getTokenInfo returns null on every failure, so every non-null result
\* carries a defined price.  (SpecRun; fails: an entry of the price answer
\* without a `price` field is passed on as {price: undefined, ...})
C12_NonNullHasPrice ==
    \A i \in Instances :
        run[i].tokenInfo.t = "object" => run[i].tokenInfo.price # Undefined

\* C13: a buy that returns success returns as initialPrice the price of its
\* one re-query, or null when the re-query produced no price, never another
\* value.  (SpecTrade; fails: a re-query answered without a `price` field
\* gives initialPrice undefined, which monitorAndSell does not refuse)
C13_InitialPriceOrNull ==
    \A i \in Instances :
        run[i].pc = "t_done" /\ run[i].isBuy /\ run[i].tradeResult.success =>
            \/ run[i].tradeResult.initialPrice = Null
            \/ run[i].tradeResult.initialPrice.t = "number"

\* the positions inside one attempt, from trade sizing to the submission
AttemptPcs == {"t_size", "t_quote", "t_swap", "t_tip", "t_blockhash", "t_send"}

\* C14: in one call, the wait entered after the k-th failed attempt, for
\* 1 <= k < maxRetries, lasts 2^k seconds; every attempt after the first
\* starts from such a wait, and a call that has ended (in particular after
\* its final failed attempt) waits for nothing.  (SpecTrade)
C14_BackoffDoubles ==
    [][\A i \in Instances :
          /\ run'[i].pc = "t_backoff" /\ run[i].pc # "t_backoff" =>
                /\ run[i].pc \in AttemptPcs
                /\ run'[i].retries = run[i].retries + 1
                /\ run'[i].retries >= 1 /\ run'[i].retries < run'[i].maxRetries
                /\ run'[i].timer = 1000 * 2 ^ run'[i].retries
          /\ run'[i].attempts = run[i].attempts + 1 /\ run[i].attempts >= 1 =>
                run[i].pc = "t_backoff" /\ run'[i].pc = "t_size"
          /\ run'[i].pc = "t_done" => run'[i].timer = 0]_vars

\* C14's case: the third failed attempt of a call is followed by an 8 s wait
C14_Witness ==
    \E i \in Instances :
        run[i].pc = "t_backoff" /\ run[i].retries = 3 /\ run[i].timer = 8000

\* the configuration variables that are absent, and the state of a process
\* that has stopped with code 1 having made no network call, price poll or
\* trade and scheduled no restart
Absent == {v \in {"PRIVATE_KEY", "API_KEY"} : ~processEnv[v]}

StoppedAtStart ==
    /\ exitCode = {1}
    /\ \A i \in Instances : run[i] = IdleRun
    /\ restartTimers = 0

\* C15, as stated: when PRIVATE_KEY or API_KEY is absent at start, the
\* process logs the list of missing variables and exits with code 1 before
\* any network call, price poll or trade, and no restart is scheduled.
\* (SpecBoot; fails without PRIVATE_KEY: the module's top level throws
\* before checkEnvVariables is ever called, and no list is logged)
C15_MissingLoggedExit ==
    loaded /\ Absent # {} => StoppedAtStart /\ logged = {Absent}

\* C15, amended: when PRIVATE_KEY or API_KEY is absent at start, the process
\* exits with code 1 before any network call, price poll or trade, and no
\* restart is scheduled; the list of missing variables is logged when
\* PRIVATE_KEY is present (API_KEY alone is absent), and nothing is logged
\* by the program when PRIVATE_KEY is absent.  (SpecBoot)
C15_MissingExit ==
    loaded /\ Absent # {} =>
        /\ StoppedAtStart
        /\ logged = IF processEnv["PRIVATE_KEY"] THEN {Absent} ELSE {}

\* C15's case: the process has stopped for a missing API_KEY
C15_Witness ==
    loaded /\ Absent = {"API_KEY"} /\ exitCode = {1} /\ logged = {{"API_KEY"}}

\* the step of the top-level sequence a run is at: 0 not started, 1 waiting
\* for the price, 2 the settle delay, 3 the buy, 4 monitoring (the sell
\* included), 5 ended
Phase(r) ==
    IF r.pc \in {"idle", "call"} THEN 0
    ELSE IF r.pc \in {"wfp_fetch", "wfp_resume", "wfp_sleep"} THEN 1
    ELSE IF r.pc = "settle" THEN 2
    ELSE IF r.pc \in TradePcs /\ r.caller = "main" THEN 3
    ELSE IF r.pc = "done" THEN 5
    ELSE 4

\* C16: every run goes through its steps in order - configuration check,
\* wait for the price, 30 s settle delay, one buy call - and enters the
\* monitor only from a buy that returned success; the buy is called once
\* per run, and a sell bundle is submitted only in a run whose buy bundle
\* was accepted.  (SpecBoot)
C16_StepsInOrder ==
    [][\A i \in Instances :
          run'[i] # run[i] =>
             LET p == Phase(run[i])
                 q == Phase(run'[i])
             IN  /\ q = p \/ q = p + 1 \/ (p = 3 /\ q = 5)
                 /\ (p = 0 /\ q = 1 => Absent = {} /\ run'[i].pc = "wfp_fetch")
                 /\ (p = 1 /\ q = 2 =>
                        /\ run'[i].waitResult.t = "number"
                        /\ run'[i].timer = 30000)
                 /\ (p = 2 /\ q = 3 =>
                        run'[i].isBuy /\ run'[i].percentage = 6 /\ ~run[i].buyAccepted)
                 /\ (p = 3 /\ q = 3 => run[i].pc # "t_done")
                 /\ (p = 3 /\ q = 4 =>
                        /\ run[i].pc = "t_done"
                        /\ run[i].tradeResult.t = "object" /\ run[i].tradeResult.success
                        /\ run[i].buyAccepted)
                 /\ (q = 4 /\ run'[i].submissions > 0 =>
                        ~run'[i].isBuy /\ run'[i].buyAccepted)]_vars

\* C16's case: a run has gone through every step and its sell bundle is
\* being submitted
C16_Witness ==
    \E i \in Instances :
        /\ run[i].pc = "t_send" /\ ~run[i].isBuy /\ run[i].caller = "monitorAndSell"
        /\ run[i].buyAccepted

\* C17: the amount a sell passes to the quote request is
\* floor(uiAmount * p / 100 * 10^decimals), which is floor(raw * p / 100)
\* for the raw balance uiAmount * 10^decimals, and the whole raw balance for
\* p = 100.  (SpecTrade; fails for a raw balance of 29 with 2 decimals and
\* p = 100: the code computes floor(0.29 * 1 * 100) = 28 in floating point)
C17_SellAmountExact ==
    \A i \in Instances :
        ~run[i].isBuy /\ run[i].pc = "t_quote" =>
            /\ run[i].amount = (run[i].balance.raw * run[i].percentage) \div 100
            /\ (run[i].percentage = 100 => run[i].amount = run[i].balance.raw)

\* C18: a bundle is submitted only at the end of an attempt that went, in
\* this order, through its own sizing, quote request, transaction build,
\* tip-account fetch and blockhash fetch: each of these positions is entered
\* only from the one before it, an attempt is entered only at sizing, and
\* nothing is carried from a failed attempt into the next.  (SpecTrade)
C18_FreshAttempt ==
    [][\A i \in Instances :
          run'[i] # run[i] =>
             /\ (run'[i].pc = "t_size" =>
                    /\ run[i].pc \in {"call", "t_backoff"}
                    /\ run'[i].attempts = run[i].attempts + 1
                    /\ run'[i].amount = 0 /\ run'[i].bundleUuid = "none")
             /\ (run'[i].pc = "t_quote" => run[i].pc = "t_size")
             /\ (run'[i].pc = "t_swap" => run[i].pc = "t_quote")
             /\ (run'[i].pc = "t_tip" => run[i].pc = "t_swap")
             /\ (run'[i].pc = "t_blockhash" => run[i].pc = "t_tip")
             /\ (run'[i].pc = "t_send" => run[i].pc = "t_blockhash")
             /\ (run'[i].submissions # run[i].submissions =>
                    /\ run'[i].pc = "t_send"
                    /\ run'[i].submissions = run[i].submissions + 1
                    /\ run'[i].attempts = run[i].attempts)
             /\ run'[i].submissions <= run'[i].attempts]_vars

\* C18's case: the second attempt of a call submits its bundle, the first
\* having submitted one too
C18_Witness ==
    \E i \in Instances :
        run[i].pc = "t_send" /\ run[i].attempts = 2 /\ run[i].submissions = 2

\* the position that follows p when the step at p succeeds
NextPcs(p) ==
    CASE p = "t_size" -> {"t_quote", "t_done"}
      [] p = "t_quote" -> {"t_swap"}
      [] p = "t_swap" -> {"t_tip"}
      [] p = "t_tip" -> {"t_blockhash"}
      [] p = "t_blockhash" -> {"t_send"}
      [] p = "t_send" -> {"t_capture", "t_done"}
      [] OTHER -> {}

\* C19: a step of an attempt either succeeds, leaving the retry count
\* alone, or fails; a failure at any step consumes exactly one retry and
\* ends the attempt there - no later step of it runs, nothing more is
\* submitted - and the call waits for the next attempt or ends; the next
\* attempt starts again at trade sizing.  The retry count changes in no
\* other way.  (SpecTrade)
C19_FailureConsumesOneRetry ==
    [][\A i \in Instances :
          run'[i] # run[i] /\ run[i].pc # "call" =>
             /\ (run[i].pc \in AttemptPcs =>
                    \/ /\ run'[i].retries = run[i].retries
                       /\ run'[i].pc \in NextPcs(run[i].pc)
                       /\ run'[i].tradeResult \notin {ThrownError, ReturnedUndefined}
                    \/ /\ run'[i].retries = run[i].retries + 1
                       /\ run'[i].pc \in {"t_backoff", "t_done"}
                       /\ run'[i].submissions = run[i].submissions
                       /\ run'[i].attempts = run[i].attempts
                       /\ (run'[i].pc = "t_done" =>
                              run'[i].tradeResult \in {False, ThrownError}))
             /\ (run[i].pc = "t_backoff" =>
                    run'[i].pc = "t_size" /\ run'[i].retries = run[i].retries)
             /\ (run[i].pc \notin AttemptPcs => run'[i].retries = run[i].retries)]_vars

\* C19's case: the second attempt has failed on an empty submission
\* identifier and the call waits for the third
C19_Witness ==
    \E i \in Instances :
        /\ run[i].pc = "t_backoff" /\ run[i].bundleUuid = "empty"
        /\ run[i].retries = 2 /\ run[i].attempts = 2

\* C20: for every maxRetries >= 0 and every failure pattern, a call that
\* has ended has returned false or a record with success = true, never
\* another value.  (SpecTrade; fails for maxRetries = 0: the loop body is
\* never entered and the function returns undefined; it fails too when the
\* catch block throws on a thrown undefined or null)
C20_ResultFalseOrSuccess ==
    \A i \in Instances :
        run[i].pc = "t_done" =>
            \/ run[i].tradeResult = False
            \/ run[i].tradeResult.t = "object" /\ run[i].tradeResult.success

====
